---- MODULE Spec2Model ----
(***************************************************************************)
(* Bigram language model of 04-ngram.ipynb: sentence normalisation, count  *)
(* collection, Add-k and interpolated smoothing, sentence scoring,          *)
(* ancestral sampling of sentences, and corpus perplexity.                  *)
(*                                                                         *)
(* Numbers.  Counts are naturals.  A smoothing parameter is an exact        *)
(* rational: k is <<kn, kd>> (k = kn/kd), lambdas is <<bn, un, d>>          *)
(* (bigram weight bn/d, unigram weight un/d).  A probability is an exact    *)
(* rational num/den kept unreduced.  math.log is modelled by its domain     *)
(* (it raises on an argument <= 0) and a log-probability is carried as the  *)
(* rational whose logarithm it is, so that a sum of logs is the log of the   *)
(* product and exp(-L/T) is the T-th root of den/num.  Floating-point       *)
(* rounding is not modelled.                                                *)
(***************************************************************************)
EXTENDS Integers, Sequences, FiniteSets, TLC

VARIABLES sentences,       \* the training corpus handed to get_counts
          unigram_counts,  \* Counter: token -> count, keys explicit
          bigram_counts,   \* defaultdict(Counter): token -> Counter, keys explicit
          start_count,
          token_count,
          pc,              \* "init" | "ready" | "gen" | "returned"
          current_word,    \* generate_sentence's loop variable
          sentence,        \* generate_sentence's token list
          result           \* what the last call returned or raised

vars == <<sentences, unigram_counts, bigram_counts, start_count, token_count,
          pc, current_word, sentence, result>>

START == "<s>"
END   == "</s>"

\* ---------------------------------------------------------------- bounds
\* A corpus of the exhaustive part has at most MaxSize counted tokens
\* (sum over its sentences of length + 1).
MaxSize == 4
\* generate_sentence's token list is followed up to this length.
MaxGenLen == 4

\* ---------------------------------------------------------------- inputs
RawTokens == {"a", "B", "<S>", "</S>"}

\* Tokens the pair-level estimators are called with.
ArgTokens == {"a", "b", START, END}

\* Add-k parameters k = kn/kd, k >= 0.
KSet == {<<0, 1>>, <<1, 2>>, <<1, 1>>}

\* Interpolation weights <<bn, un, d>>, non-negative, bn + un <= d.
Lambdas == {<<2, 1, 4>>, <<0, 0, 1>>, <<1, 0, 1>>, <<0, 1, 1>>}

ExampleCorpora ==
    { << <<"a", "b">> >>,
      << <<"a", "b">>, <<"a", "c">> >> }

TestSentences == { <<>>, <<"a">>, <<"a", "b">>, <<"B", "a">> }

TestCorpora == { <<>>, << <<"a", "b">> >>, << <<"a">>, <<>> >> }

SeqsOfLen(S, n) == [1..n -> S]

RECURSIVE CorporaOfSize(_)
CorporaOfSize(s) ==
    IF s = 0 THEN { <<>> }
    ELSE UNION { { <<sent>> \o rest : sent \in SeqsOfLen(RawTokens, l),
                                      rest \in CorporaOfSize(s - 1 - l) }
                 : l \in 0..(s - 1) }

Corpora == UNION { CorporaOfSize(s) : s \in 0..MaxSize } \cup ExampleCorpora

\* ---------------------------------------------------------------- helpers
EmptyCounter == [w \in {} |-> 0]

\* Counter.__getitem__: a missing key reads as 0 and is not inserted.
CounterGet(c, w) == IF w \in DOMAIN c THEN c[w] ELSE 0

\* Counter[w] += 1
CounterIncAssign(c, w) ==
    IF w \in DOMAIN c THEN c
    ELSE [x \in DOMAIN c \cup {w} |-> IF x = w THEN 1 ELSE c[x]]
CounterInc(c, w) ==
    IF w \in DOMAIN c THEN [c EXCEPT ![w] = @ + 1]
    ELSE [x \in DOMAIN c \cup {w} |-> IF x = w THEN 1 ELSE c[x]]

\* defaultdict(Counter).__getitem__: a missing key is inserted with an empty
\* Counter; the table after the read.
DefaultdictTouch(b, w) ==
    IF w \in DOMAIN b THEN b
    ELSE [x \in DOMAIN b \cup {w} |-> IF x = w THEN EmptyCounter ELSE b[x]]

RECURSIVE SumValues(_, _)
SumValues(c, keys) ==
    IF keys = {} THEN 0
    ELSE LET w == CHOOSE x \in keys : TRUE
         IN  c[w] + SumValues(c, keys \ {w})

\* sum(counter.values())
CounterTotal(c) == SumValues(c, DOMAIN c)

\* str.lower() on the tokens of the model
Lower(w) ==
    CASE w = "A"    -> "a"
      [] w = "B"    -> "b"
      [] w = "C"    -> "c"
      [] w = "<S>"  -> "<s>"
      [] w = "</S>" -> "</s>"
      [] OTHER      -> w

convert_sentence(s) == <<START>> \o [i \in 1..Len(s) |-> Lower(s[i])] \o <<END>>

\* zip(sentence[:-1], sentence[1:])
bigram_list_drop_last(s) == [i \in 1..(Len(s) - 2) |-> <<s[i], s[i + 1]>>]
bigram_list(s) == [i \in 1..(Len(s) - 1) |-> <<s[i], s[i + 1]>>]

\* ---------------------------------------------------------------- get_counts
\* A unigram loop that also counts the first token of the sentence.
RECURSIVE CountWordsWithFirst(_, _, _)
CountWordsWithFirst(uc, s, i) ==
    IF i > Len(s) THEN CounterInc(uc, s[1])
    ELSE CountWordsWithFirst(CounterInc(uc, s[i]), s, i + 1)

\* for word in sentence[1:]: unigram_counts[word] += 1
RECURSIVE CountWords(_, _, _)
CountWords(uc, s, i) ==
    IF i > Len(s) THEN uc
    ELSE CountWords(CounterInc(uc, s[i]), s, i + 1)

\* A first pass that leaves out the sentences without tokens.
RECURSIVE UnigramPassSkipEmpty(_, _, _)
UnigramPassSkipEmpty(acc, sents, n) ==
    IF n > Len(sents) THEN acc
    ELSE IF Len(sents[n]) = 0 THEN UnigramPassSkipEmpty(acc, sents, n + 1)
    ELSE UnigramPassSkipEmpty(
             [uc |-> CountWords(acc.uc, convert_sentence(sents[n]), 2),
              sc |-> acc.sc + 1], sents, n + 1)

\* first pass: unigram counts and start_count
RECURSIVE UnigramPass(_, _, _)
UnigramPass(acc, sents, n) ==
    IF n > Len(sents) THEN acc
    ELSE UnigramPass([uc |-> CountWords(acc.uc, convert_sentence(sents[n]), 2),
                      sc |-> acc.sc + 1], sents, n + 1)

\* An increment that records a pair once, however often it occurs.
BigramIncOnce(b, first, second) ==
    LET b1 == DefaultdictTouch(b, first)
    IN  [b1 EXCEPT ![first] = CounterIncAssign(@, second)]

\* bigram_counts[first][second] += 1
BigramInc(b, first, second) ==
    LET b1 == DefaultdictTouch(b, first)
    IN  [b1 EXCEPT ![first] = CounterInc(@, second)]

RECURSIVE CountBigrams(_, _, _)
CountBigrams(b, pairs, i) ==
    IF i > Len(pairs) THEN b
    ELSE CountBigrams(BigramInc(b, pairs[i][1], pairs[i][2]), pairs, i + 1)

\* second pass: bigram counts
RECURSIVE BigramPass(_, _, _)
BigramPass(b, sents, n) ==
    IF n > Len(sents) THEN b
    ELSE BigramPass(CountBigrams(b, bigram_list(convert_sentence(sents[n])), 1),
                    sents, n + 1)

get_counts(sents) ==
    LET u == UnigramPass([uc |-> EmptyCounter, sc |-> 0], sents, 1)
        b == BigramPass(EmptyCounter, sents, 1)
    IN  [unigram_counts |-> u.uc,
         bigram_counts  |-> b,
         start_count    |-> u.sc,
         token_count    |-> CounterTotal(u.uc)]

\* ---------------------------------------------------------------- estimators
\* The outcome of math.log(num / den): ZeroDivisionError when the divisor is
\* zero, ValueError (math domain error) when the quotient is not positive.
LogOfQuotient(num, den) ==
    IF den = 0 THEN [status |-> "ZeroDivisionError", num |-> 0, den |-> 1]
    ELSE IF num <= 0 THEN [status |-> "ValueError", num |-> 0, den |-> 1]
    ELSE [status |-> "ok", num |-> num, den |-> den]

\* sm_bigram_counts / sm_unigram_counts of get_log_prob_addk, as the pair
\* <<numerator, denominator>>: with k = kn/kd the quotient
\* (B + k) / (U + k*|V|) is (B*kd + kn) / (U*kd + kn*|V|).
addk_quotient_no_vocab(prev_word, word, uc, bc, k) ==
    << CounterGet(IF prev_word \in DOMAIN bc THEN bc[prev_word] ELSE EmptyCounter,
                  word) * k[2] + k[1],
       CounterGet(uc, prev_word) * k[2] + k[1] >>
addk_quotient(prev_word, word, uc, bc, k) ==
    << CounterGet(IF prev_word \in DOMAIN bc THEN bc[prev_word] ELSE EmptyCounter,
                  word) * k[2] + k[1],
       CounterGet(uc, prev_word) * k[2] + k[1] * Cardinality(DOMAIN uc) >>

\* get_log_prob_addk: the value (or the exception) and bigram_counts after the
\* call (bigram_counts[prev_word] inserts a missing row).
get_log_prob_addk_plain_dict(prev_word, word, uc, bc, k) ==
    IF prev_word \notin DOMAIN bc
    THEN [status |-> "KeyError", num |-> 0, den |-> 1, bigram_counts |-> bc]
    ELSE LET q == addk_quotient(prev_word, word, uc, bc, k)
             r == LogOfQuotient(q[1], q[2])
         IN  [status |-> r.status, num |-> r.num, den |-> r.den,
              bigram_counts |-> bc]
get_log_prob_addk(prev_word, word, uc, bc, k) ==
    LET bc1 == DefaultdictTouch(bc, prev_word)
        q == addk_quotient(prev_word, word, uc, bc1, k)
        r == LogOfQuotient(q[1], q[2])
    IN  [status |-> r.status, num |-> r.num, den |-> r.den, bigram_counts |-> bc1]

\* zerogram_lambda = 1 - lambdas[0] - lambdas[1], as a numerator over d
zerogram_lambda_no_unigram(lambdas) == lambdas[3] - lambdas[1]
zerogram_lambda(lambdas) == lambdas[3] - lambdas[1] - lambdas[2]

\* if sm_bigram_counts == 0.0: the bigram term is the literal 0
bigram_term_is_zero_never(sm_bigram_counts) == FALSE
bigram_term_is_zero(sm_bigram_counts) == sm_bigram_counts = 0

\* get_log_prob_interp: the value (or the exception) and bigram_counts after
\* the call.  With lambdas = <<bn, un, d>> the mixture
\*   B*bn/(d*u_counts) + U[word]*un/(token_count*d) + (d-bn-un)/(|V|*d)
\* is put over the common denominator d * u_counts * token_count * |V|
\* (u_counts taken as 1 when the bigram term is the literal 0).  divided says
\* whether sm_bigram_counts / float(u_counts) was evaluated, bterm is
\* interp_bigram_counts as <<numerator, denominator>>.
get_log_prob_interp(prev_word, word, uc, bc, sc, tc, lambdas) ==
    LET bigram_lambda   == lambdas[1]
        unigram_lambda  == lambdas[2]
        d               == lambdas[3]
        bc1 == DefaultdictTouch(bc, prev_word)
        sm_bigram_counts == CounterGet(bc1[prev_word], word) * bigram_lambda
        divides  == ~bigram_term_is_zero(sm_bigram_counts)
        u_counts == IF prev_word = START THEN sc ELSE CounterGet(uc, prev_word)
        uden     == IF divides THEN u_counts ELSE 1
        vocab_size == Cardinality(DOMAIN uc)
        num == sm_bigram_counts * tc * vocab_size
                 + CounterGet(uc, word) * unigram_lambda * uden * vocab_size
                 + zerogram_lambda(lambdas) * uden * tc
        den == d * uden * tc * vocab_size
        r == IF divides /\ u_counts = 0
                 THEN [status |-> "ZeroDivisionError", num |-> 0, den |-> 1]
             ELSE IF tc = 0
                 THEN [status |-> "ZeroDivisionError", num |-> 0, den |-> 1]
             ELSE IF vocab_size = 0
                 THEN [status |-> "ZeroDivisionError", num |-> 0, den |-> 1]
             ELSE LogOfQuotient(num, den)
    IN  [status |-> r.status, num |-> r.num, den |-> r.den, bigram_counts |-> bc1,
         divided |-> divides, u_counts |-> u_counts,
         bterm |-> IF divides /\ u_counts # 0
                   THEN <<sm_bigram_counts, d * u_counts>> ELSE <<0, 1>>]

\* ---------------------------------------------------------------- scorers
\* The loops below bind each intermediate value once, as the element of a
\* singleton set (x \in {e}), and pass it on by name.

\* total += get_log_prob_...(prev_word, word, ...): a sum of logs is carried
\* as the product of their arguments; npairs counts the pairs scored.
Accumulate(acc, r) ==
    [status |-> r.status,
     num |-> acc.num * r.num,
     den |-> acc.den * r.den,
     bigram_counts |-> r.bigram_counts,
     npairs |-> acc.npairs + 1]

ZeroSum(bc) ==
    [status |-> "ok", num |-> 1, den |-> 1, bigram_counts |-> bc, npairs |-> 0]

\* sum([get_log_prob_addk(prev_word, word, ...) for prev_word, word in
\* bigram_list]): the pairs are scored in order and the first exception ends
\* the call.
RECURSIVE SumAddk(_, _, _, _, _)
SumAddk(acc, pairs, i, uc, k) ==
    IF i > Len(pairs) \/ acc.status # "ok" THEN acc
    ELSE CHOOSE out \in
           { SumAddk(next, pairs, i + 1, uc, k) :
               next \in { Accumulate(acc, r) :
                            r \in { get_log_prob_addk(pairs[i][1], pairs[i][2],
                                        uc, acc.bigram_counts, k) } } } : TRUE

get_sent_log_prob_addk(sent, uc, bc, sc, tc, k) ==
    CHOOSE out \in { SumAddk(zero, bigram_list(convert_sentence(sent)), 1, uc, k) :
                       zero \in { ZeroSum(bc) } } : TRUE

RECURSIVE SumInterp(_, _, _, _, _, _, _)
SumInterp(acc, pairs, i, uc, sc, tc, lambdas) ==
    IF i > Len(pairs) \/ acc.status # "ok" THEN acc
    ELSE CHOOSE out \in
           { SumInterp(next, pairs, i + 1, uc, sc, tc, lambdas) :
               next \in { Accumulate(acc, r) :
                            r \in { get_log_prob_interp(pairs[i][1], pairs[i][2],
                                        uc, acc.bigram_counts, sc, tc,
                                        lambdas) } } } : TRUE

get_sent_log_prob_interp(sent, uc, bc, sc, tc, lambdas) ==
    CHOOSE out \in { SumInterp(zero, bigram_list(convert_sentence(sent)), 1,
                               uc, sc, tc, lambdas) :
                       zero \in { ZeroSum(bc) } } : TRUE

\* The smoothing_function argument of calculate_perplexity.
smoothing_function(fn, sent, uc, bc, sc, tc, parameter) ==
    IF fn = "addk" THEN get_sent_log_prob_addk(sent, uc, bc, sc, tc, parameter)
    ELSE get_sent_log_prob_interp(sent, uc, bc, sc, tc, parameter)

\* ---------------------------------------------------------------- perplexity
\* One iteration of the loop of calculate_perplexity:
\*   test_token_count += len(sentence) + 1
\*   total_log_prob += smoothing_function(sentence, ...)
PerplexityStepNoEnd(acc, sent, r) ==
    [status |-> r.status,
     num |-> acc.num * r.num,
     den |-> acc.den * r.den,
     bigram_counts |-> r.bigram_counts,
     npairs |-> acc.npairs + r.npairs,
     test_token_count |-> acc.test_token_count + Len(sent)]
PerplexityStep(acc, sent, r) ==
    [status |-> r.status,
     num |-> acc.num * r.num,
     den |-> acc.den * r.den,
     bigram_counts |-> r.bigram_counts,
     npairs |-> acc.npairs + r.npairs,
     test_token_count |-> acc.test_token_count + Len(sent) + 1]

RECURSIVE PerplexityLoop(_, _, _, _, _, _, _, _)
PerplexityLoop(acc, sents, n, uc, sc, tc, fn, parameter) ==
    IF n > Len(sents) \/ acc.status # "ok" THEN acc
    ELSE CHOOSE out \in
           { PerplexityLoop(next, sents, n + 1, uc, sc, tc, fn, parameter) :
               next \in { PerplexityStep(acc, sents[n], r) :
                            r \in { smoothing_function(fn, sents[n], uc,
                                        acc.bigram_counts, sc, tc,
                                        parameter) } } } : TRUE

\* return math.exp(-total_log_prob / test_token_count): with total_log_prob
\* the log of num/den, the value is the root-th root of pnum/pden = den/num.
PerplexityValue(acc) ==
    LET status == IF acc.status # "ok" THEN acc.status
                  ELSE IF acc.test_token_count = 0 THEN "ZeroDivisionError"
                  ELSE "ok"
    IN  [status |-> status,
         root |-> acc.test_token_count,
         pnum |-> IF status = "ok" THEN acc.den ELSE 0,
         pden |-> IF status = "ok" THEN acc.num ELSE 1,
         npairs |-> acc.npairs,
         bigram_counts |-> acc.bigram_counts]

calculate_perplexity(sents, uc, bc, sc, tc, fn, parameter) ==
    CHOOSE out \in
      { PerplexityValue(acc) :
          acc \in { PerplexityLoop(zero, sents, 1, uc, sc, tc, fn, parameter) :
                      zero \in { [status |-> "ok", num |-> 1, den |-> 1,
                                  bigram_counts |-> bc, npairs |-> 0,
                                  test_token_count |-> 0] } } } : TRUE

\* ---------------------------------------------------------------- actions
NoResult == [op |-> "none"]

Init ==
    /\ sentences \in Corpora
    /\ unigram_counts = EmptyCounter
    /\ bigram_counts = EmptyCounter
    /\ start_count = 0
    /\ token_count = 0
    /\ pc = "init"
    /\ current_word = START
    /\ sentence = <<>>
    /\ result = NoResult

\* unigrams, bigrams, start_count, token_count = get_counts(sentences)
GetCounts ==
    /\ pc = "init"
    /\ LET r == get_counts(sentences)
       IN  /\ unigram_counts' = r.unigram_counts
           /\ bigram_counts' = r.bigram_counts
           /\ start_count' = r.start_count
           /\ token_count' = r.token_count
    /\ pc' = "returned"
    /\ result' = [op |-> "get_counts"]
    /\ UNCHANGED <<sentences, current_word, sentence>>

\* The caller has used the value (or caught the exception) and goes on.
Continue ==
    /\ pc = "returned"
    /\ pc' = "ready"
    /\ result' = NoResult
    /\ UNCHANGED <<sentences, unigram_counts, bigram_counts, start_count,
                   token_count, current_word, sentence>>

\* print(get_log_prob_addk(prev_word, word, unigrams, bigrams, k))
CallAddk(prev_word, word, k) ==
    /\ pc = "ready"
    /\ \E r \in { get_log_prob_addk(prev_word, word, unigram_counts,
                                  bigram_counts, k) } :
           /\ bigram_counts' = r.bigram_counts
           /\ result' = [op |-> "get_log_prob_addk", prev_word |-> prev_word,
                         word |-> word, k |-> k, status |-> r.status,
                         num |-> r.num, den |-> r.den,
                         absent |-> /\ prev_word \notin DOMAIN unigram_counts
                                    /\ prev_word \notin DOMAIN bigram_counts]
    /\ pc' = "returned"
    /\ UNCHANGED <<sentences, unigram_counts, start_count, token_count,
                   current_word, sentence>>

\* print(get_log_prob_interp(prev_word, word, unigrams, bigrams, start_count,
\*                           token_count, lambdas))
CallInterp(prev_word, word, lambdas) ==
    /\ pc = "ready"
    /\ \E r \in { get_log_prob_interp(prev_word, word, unigram_counts,
                                    bigram_counts, start_count, token_count,
                                    lambdas) } :
           /\ bigram_counts' = r.bigram_counts
           /\ result' = [op |-> "get_log_prob_interp", prev_word |-> prev_word,
                         word |-> word, lambdas |-> lambdas,
                         status |-> r.status, num |-> r.num, den |-> r.den,
                         divided |-> r.divided, u_counts |-> r.u_counts,
                         bterm |-> r.bterm]
    /\ pc' = "returned"
    /\ UNCHANGED <<sentences, unigram_counts, start_count, token_count,
                   current_word, sentence>>

\* print(get_sent_log_prob_addk(sentence, unigrams, bigrams, start_count,
\*                              token_count, k))
CallSentAddk(sent, k) ==
    /\ pc = "ready"
    /\ \E r \in { get_sent_log_prob_addk(sent, unigram_counts, bigram_counts,
                                       start_count, token_count, k) } :
           /\ bigram_counts' = r.bigram_counts
           /\ result' = [op |-> "get_sent_log_prob_addk", sent |-> sent,
                         k |-> k, status |-> r.status,
                         num |-> IF r.status = "ok" THEN r.num ELSE 0,
                         den |-> IF r.status = "ok" THEN r.den ELSE 1,
                         npairs |-> r.npairs]
    /\ pc' = "returned"
    /\ UNCHANGED <<sentences, unigram_counts, start_count, token_count,
                   current_word, sentence>>

\* print(get_sent_log_prob_interp(sentence, unigrams, bigrams, start_count,
\*                                token_count, lambdas))
CallSentInterp(sent, lambdas) ==
    /\ pc = "ready"
    /\ \E r \in { get_sent_log_prob_interp(sent, unigram_counts, bigram_counts,
                                         start_count, token_count, lambdas) } :
           /\ bigram_counts' = r.bigram_counts
           /\ result' = [op |-> "get_sent_log_prob_interp", sent |-> sent,
                         lambdas |-> lambdas, status |-> r.status,
                         num |-> IF r.status = "ok" THEN r.num ELSE 0,
                         den |-> IF r.status = "ok" THEN r.den ELSE 1,
                         npairs |-> r.npairs]
    /\ pc' = "returned"
    /\ UNCHANGED <<sentences, unigram_counts, start_count, token_count,
                   current_word, sentence>>

\* print(calculate_perplexity(test_set, unigrams, bigrams, start_count,
\*                            token_count, smoothing_function, parameter))
CallPerplexity(test_set, fn, parameter) ==
    /\ pc = "ready"
    /\ \E r \in { calculate_perplexity(test_set, unigram_counts, bigram_counts,
                                     start_count, token_count, fn, parameter) } :
           /\ bigram_counts' = r.bigram_counts
           /\ result' = [op |-> "calculate_perplexity", test_set |-> test_set,
                         fn |-> fn, parameter |-> parameter,
                         status |-> r.status, root |-> r.root,
                         pnum |-> r.pnum, pden |-> r.pden,
                         npairs |-> r.npairs]
    /\ pc' = "returned"
    /\ UNCHANGED <<sentences, unigram_counts, start_count, token_count,
                   current_word, sentence>>

\* total_counts = float(sum(prev_word_counts.values()))
total_counts(prev_word_counts) == CounterTotal(prev_word_counts)

\* generate_sentence: current_word = "<s>"; sentence = [current_word]
GenStart ==
    /\ pc = "ready"
    /\ pc' = "gen"
    /\ current_word' = START
    /\ sentence' = <<START>>
    /\ UNCHANGED <<sentences, unigram_counts, bigram_counts, start_count,
                   token_count, result>>

\* One iteration of the while loop in which choice() draws next_word: a key
\* of the row of current_word, drawn with probability count / total_counts.
GenStep(next_word) ==
    /\ pc = "gen"
    /\ current_word # END
    /\ Len(sentence) < MaxGenLen
    /\ LET bc1 == DefaultdictTouch(bigram_counts, current_word)
           prev_word_counts == bc1[current_word]
       IN  /\ next_word \in DOMAIN prev_word_counts
           /\ total_counts(prev_word_counts) > 0
           /\ prev_word_counts[next_word] > 0
           /\ bigram_counts' = bc1
    /\ current_word' = next_word
    /\ sentence' = Append(sentence, next_word)
    /\ UNCHANGED <<sentences, unigram_counts, start_count, token_count, pc,
                   result>>

\* The same iteration with the loop followed without a length bound: the
\* loop reads current_word only, and of sentence the first MaxGenLen tokens
\* are kept.
GenStepLong(next_word) ==
    /\ pc = "gen"
    /\ current_word # END
    /\ LET bc1 == DefaultdictTouch(bigram_counts, current_word)
           prev_word_counts == bc1[current_word]
       IN  /\ next_word \in DOMAIN prev_word_counts
           /\ total_counts(prev_word_counts) > 0
           /\ prev_word_counts[next_word] > 0
           /\ bigram_counts' = bc1
    /\ current_word' = next_word
    /\ sentence' = IF Len(sentence) < MaxGenLen THEN Append(sentence, next_word)
                   ELSE sentence
    /\ UNCHANGED <<sentences, unigram_counts, start_count, token_count, pc,
                   result>>

\* One iteration of the while loop on a row without successors: choice()
\* raises ValueError on the empty list.
GenFail ==
    /\ pc = "gen"
    /\ current_word # END
    /\ LET bc1 == DefaultdictTouch(bigram_counts, current_word)
       IN  /\ DOMAIN bc1[current_word] = {}
           /\ bigram_counts' = bc1
    /\ result' = [op |-> "generate_sentence", status |-> "ValueError",
                  sampled |-> sentence, value |-> <<>>]
    /\ pc' = "returned"
    /\ current_word' = START
    /\ sentence' = <<>>
    /\ UNCHANGED <<sentences, unigram_counts, start_count, token_count>>

\* The loop has ended: return " ".join(sentence[1:-1]), kept as the token
\* sequence.
GenReturnKeepEnd ==
    /\ pc = "gen"
    /\ current_word = END
    /\ result' = [op |-> "generate_sentence", status |-> "ok",
                  sampled |-> sentence,
                  value |-> SubSeq(sentence, 2, Len(sentence))]
    /\ pc' = "returned"
    /\ current_word' = START
    /\ sentence' = <<>>
    /\ UNCHANGED <<sentences, unigram_counts, bigram_counts, start_count,
                   token_count>>
GenReturn ==
    /\ pc = "gen"
    /\ current_word = END
    /\ result' = [op |-> "generate_sentence", status |-> "ok",
                  sampled |-> sentence,
                  value |-> SubSeq(sentence, 2, Len(sentence) - 1)]
    /\ pc' = "returned"
    /\ current_word' = START
    /\ sentence' = <<>>
    /\ UNCHANGED <<sentences, unigram_counts, bigram_counts, start_count,
                   token_count>>

\* Every token a generated sentence can hold.
AllTokens == ArgTokens \cup {"c"}

\* The calls a session makes on the tables between generations.
Call ==
    \/ \E prev_word \in ArgTokens, word \in ArgTokens, k \in KSet :
           CallAddk(prev_word, word, k)
    \/ \E prev_word \in ArgTokens, word \in ArgTokens, lambdas \in Lambdas :
           CallInterp(prev_word, word, lambdas)
    \/ \E sent \in TestSentences, k \in KSet : CallSentAddk(sent, k)
    \/ \E sent \in TestSentences, lambdas \in Lambdas :
           CallSentInterp(sent, lambdas)
    \/ \E test_set \in TestCorpora, k \in KSet :
           CallPerplexity(test_set, "addk", k)
    \/ \E test_set \in TestCorpora, lambdas \in Lambdas :
           CallPerplexity(test_set, "interp", lambdas)

Next ==
    \/ GetCounts
    \/ Continue
    \/ Call
    \/ GenStart
    \/ \E next_word \in AllTokens : GenStep(next_word)
    \/ GenFail
    \/ GenReturn

Spec == Init /\ [][Next]_vars

\* The generator's loop without the length bound.
FairNext ==
    \/ GetCounts
    \/ Continue
    \/ Call
    \/ GenStart
    \/ \E next_word \in AllTokens : GenStepLong(next_word)
    \/ GenFail
    \/ GenReturn

\* Fair sampling: choice() gives every successor with a positive count a
\* positive probability, so a token that can be drawn again and again is
\* drawn again and again; the return statement does run.
FairSpec ==
    /\ Init
    /\ [][FairNext]_vars
    /\ \A next_word \in AllTokens : SF_vars(GenStepLong(next_word))
    /\ WF_vars(GenReturn)

\* ================================================================ claims
\* The normalized form of a raw sentence, position by position.
Normalized(s) ==
    [i \in 1..(Len(s) + 2) |->
        IF i = 1 THEN START
        ELSE IF i = Len(s) + 2 THEN END
        ELSE Lower(s[i - 1])]

\* Positions <<n, i>> of the normalized training corpus.
Positions ==
    { <<n, i>> \in (1..Len(sentences)) \X (1..(MaxSize + 2)) :
        i <= Len(sentences[n]) + 2 }

\* Occurrences of w at positions 2..last (1-based) of the normalized sentences.
UnigramOccurrences(w) ==
    Cardinality({ p \in Positions :
                    p[2] >= 2 /\ Normalized(sentences[p[1]])[p[2]] = w })

\* Adjacent occurrences of x, y in the normalized sentences.
BigramOccurrences(x, y) ==
    Cardinality({ p \in Positions :
                    /\ p[2] <= Len(sentences[p[1]]) + 1
                    /\ Normalized(sentences[p[1]])[p[2]] = x
                    /\ Normalized(sentences[p[1]])[p[2] + 1] = y })

TrainingTokens ==
    { Normalized(sentences[p[1]])[p[2]] : p \in Positions }

VocabularySize == Cardinality(DOMAIN unigram_counts)

\* BigramCounts[x][y] with absent keys read as zero and nothing inserted.
BigramCount(x, y) ==
    IF x \in DOMAIN bigram_counts THEN CounterGet(bigram_counts[x], y) ELSE 0

\* C1: get_counts returns UnigramCounts[w] = the occurrences of w at positions
\* 1..last of the normalized sentences, BigramCounts[x][y] = the adjacent
\* occurrences of x, y, StartCount = the number of sentences and TokenCount =
\* the sum of the unigram counts; the corpus [["a","b"]] yields
\* {a:1, b:1, </s>:1}, {<s>:{a:1}, a:{b:1}, b:{</s>:1}}, 1 and 3.
C1_GetCountsTables ==
    result.op = "get_counts" =>
        /\ DOMAIN unigram_counts = { w \in TrainingTokens : UnigramOccurrences(w) > 0 }
        /\ \A w \in DOMAIN unigram_counts : unigram_counts[w] = UnigramOccurrences(w)
        /\ DOMAIN bigram_counts =
               { x \in TrainingTokens :
                   \E y \in TrainingTokens : BigramOccurrences(x, y) > 0 }
        /\ \A x \in DOMAIN bigram_counts :
               /\ DOMAIN bigram_counts[x] =
                      { y \in TrainingTokens : BigramOccurrences(x, y) > 0 }
               /\ \A y \in DOMAIN bigram_counts[x] :
                      bigram_counts[x][y] = BigramOccurrences(x, y)
        /\ start_count = Len(sentences)
        /\ token_count = CounterTotal(unigram_counts)
        /\ token_count = Cardinality({ p \in Positions : p[2] >= 2 })
        /\ sentences = << <<"a", "b">> >> =>
               /\ unigram_counts = [w \in {"a", "b", END} |-> 1]
               /\ bigram_counts = [x \in {START, "a", "b"} |->
                                     IF x = START THEN [y \in {"a"} |-> 1]
                                     ELSE IF x = "a" THEN [y \in {"b"} |-> 1]
                                     ELSE [y \in {END} |-> 1]]
               /\ start_count = 1
               /\ token_count = 3

\* C1 witness: get_counts has returned for a corpus of two sentences in which
\* a raw token is case-folded and a word is counted more than once.
C1_Witness ==
    /\ result.op = "get_counts"
    /\ Len(sentences) = 2
    /\ \E n \in 1..Len(sentences) : \E i \in 1..Len(sentences[n]) :
           sentences[n][i] = "B"
    /\ \E w \in DOMAIN unigram_counts : w # END /\ unigram_counts[w] >= 2

\* k > 0 for an Add-k parameter <<kn, kd>>
Positive(k) == k[1] > 0

\* C2: for k > 0 and a non-empty vocabulary the Add-k sentence probability
\* exp(get_sent_log_prob_addk(...)) lies in (0, 1], and the Add-k perplexity
\* is therefore at least 1.
C2_AddkSentenceProbabilityAtMostOne ==
    /\ (/\ result.op = "get_sent_log_prob_addk"
        /\ Positive(result.k)
        /\ VocabularySize > 0)
         => /\ result.status = "ok"
            /\ 0 < result.num
            /\ result.num <= result.den
    /\ (/\ result.op = "calculate_perplexity"
        /\ result.fn = "addk"
        /\ Positive(result.parameter)
        /\ result.status = "ok")
         => result.pnum >= result.pden

\* C3: once get_counts has returned, UnigramCounts and BigramCounts stay
\* exactly as it returned them (same keys, row keys included, same counts)
\* whatever estimator, scorer, generator or perplexity calls follow.
C3_TablesReadOnly ==
    (/\ pc # "init"
     /\ Len(sentences) > 0
     /\ result.op \notin {"none", "get_counts"} => result.status = "ok")
      => /\ unigram_counts = get_counts(sentences).unigram_counts
         /\ bigram_counts = get_counts(sentences).bigram_counts

\* C4: for the table of a non-empty corpus generate_sentence never stands at
\* a current token whose row is empty, and under fair sampling the loop draws
\* END and the call returns.
C4_GeneratorTerminates ==
    /\ [](( /\ pc = "gen"
            /\ Len(sentences) > 0
            /\ current_word # END)
            => /\ current_word \in DOMAIN bigram_counts
               /\ DOMAIN bigram_counts[current_word] # {})
    /\ (pc = "gen" /\ Len(sentences) > 0)
         ~> (/\ pc = "returned"
             /\ result.op = "generate_sentence"
             /\ result.status = "ok")

\* C4 witness: generate_sentence has returned after the loop came back to a
\* token it had already stood at.
C4_Witness ==
    /\ pc = "returned"
    /\ result.op = "generate_sentence"
    /\ result.status = "ok"
    /\ Len(sentences) > 0
    /\ \E i \in 2..Len(result.sampled) : \E j \in 2..Len(result.sampled) :
           i < j /\ result.sampled[i] = result.sampled[j]

Range(f) == { f[i] : i \in DOMAIN f }

\* No raw token of the training corpus case-folds to START.
NoRawStart ==
    \A n \in 1..Len(sentences) : \A i \in 1..Len(sentences[n]) :
        Lower(sentences[n][i]) # START

\* sampled holds START only first and END only last, and value is sampled
\* without exactly those two positions, so value holds neither marker.
StripsMarkers(sampled, value) ==
    /\ Len(sampled) >= 2
    /\ sampled[1] = START
    /\ sampled[Len(sampled)] = END
    /\ \A i \in 2..Len(sampled) : sampled[i] # START
    /\ \A i \in 1..(Len(sampled) - 1) : sampled[i] # END
    /\ value = [i \in 1..(Len(sampled) - 2) |-> sampled[i + 1]]
    /\ START \notin Range(value)
    /\ END \notin Range(value)

\* C5 as stated: whenever generate_sentence returns for a table produced by
\* get_counts, the sampled sequence has START only first and END only last
\* and the returned sequence holds neither.
C5_GeneratedHasNoMarkers ==
    (result.op = "generate_sentence" /\ result.status = "ok")
      => StripsMarkers(result.sampled, result.value)

\* C5 amended: the same, for a training corpus in which no raw token
\* case-folds to START.
C5_GeneratedHasNoMarkersNoRawStart ==
    (result.op = "generate_sentence" /\ result.status = "ok" /\ NoRawStart)
      => StripsMarkers(result.sampled, result.value)

\* C5 witness: generate_sentence has returned two words for a corpus without
\* a START-like raw token.
C5_Witness ==
    /\ result.op = "generate_sentence"
    /\ result.status = "ok"
    /\ NoRawStart
    /\ Len(result.value) = 2

\* C6: for k > 0 and a non-empty vocabulary get_log_prob_addk yields the
\* strictly positive probability (B[prev][word] + k) / (U[prev] + k*|V|) for
\* every pair, without error; for a prev absent from the tables it is 1/|V|.
C6_AddkPositive ==
    (/\ result.op = "get_log_prob_addk"
     /\ Positive(result.k)
     /\ VocabularySize > 0)
      => /\ result.status = "ok"
         /\ result.num > 0
         /\ result.den > 0
         /\ result.num * (CounterGet(unigram_counts, result.prev_word) * result.k[2]
                            + result.k[1] * VocabularySize)
              = result.den * (BigramCount(result.prev_word, result.word) * result.k[2]
                                + result.k[1])
         /\ result.absent => result.num * VocabularySize = result.den

\* C6 witness: an Add-k call with k > 0 returned for a prev that was in
\* neither table.
C6_Witness ==
    /\ result.op = "get_log_prob_addk"
    /\ Positive(result.k)
    /\ VocabularySize > 0
    /\ result.absent
    /\ result.status = "ok"

\* k1 < k2 for Add-k parameters
Less(k1, k2) == k1[1] * k2[2] < k2[1] * k1[2]

\* C7 as stated: at k2 > k1 >= 0 the Add-k probability of a bigram with a
\* nonzero raw count is smaller than at k1 and that of a zero-count bigram is
\* larger (k2 the parameter of the call made, k1 any smaller parameter at
\* which the quotient is defined).
C7_AddkMonotone ==
    (result.op = "get_log_prob_addk" /\ result.status = "ok")
      => \A k1 \in KSet :
           LET q == addk_quotient(result.prev_word, result.word, unigram_counts,
                                  bigram_counts, k1)
               B == BigramCount(result.prev_word, result.word)
           IN  (Less(k1, result.k) /\ q[2] # 0)
                 => /\ B # 0 => result.num * q[2] < q[1] * result.den
                    /\ B = 0 => result.num * q[2] > q[1] * result.den

\* C7 amended: the probability at k2 is smaller than at k1 when
\* B[prev][word] * |V| > U[prev], larger when B[prev][word] * |V| < U[prev]
\* (every zero-count bigram whose prev has a nonzero unigram count), and the
\* same when they are equal.
C7_AddkMonotoneAgainstUniform ==
    (result.op = "get_log_prob_addk" /\ result.status = "ok")
      => \A k1 \in KSet :
           LET q == addk_quotient(result.prev_word, result.word, unigram_counts,
                                  bigram_counts, k1)
               B == BigramCount(result.prev_word, result.word)
               U == CounterGet(unigram_counts, result.prev_word)
           IN  (Less(k1, result.k) /\ q[2] # 0)
                 => /\ B * VocabularySize > U
                         => result.num * q[2] < q[1] * result.den
                    /\ B * VocabularySize < U
                         => result.num * q[2] > q[1] * result.den
                    /\ B * VocabularySize = U
                         => result.num * q[2] = q[1] * result.den

\* C7 witness: an Add-k call at k = 1 on a seen bigram whose raw estimate is
\* below 1/|V|, so that its probability grows with k.
C7_Witness ==
    /\ result.op = "get_log_prob_addk"
    /\ result.status = "ok"
    /\ result.k = <<1, 1>>
    /\ BigramCount(result.prev_word, result.word) > 0
    /\ BigramCount(result.prev_word, result.word) * VocabularySize
         < CounterGet(unigram_counts, result.prev_word)

\* bigramWeight + unigramWeight = 1, that is zerogramWeight = 0
WeightsSumToOne(lambdas) == lambdas[1] + lambdas[2] = lambdas[3]

\* bigramWeight + unigramWeight < 1, that is zerogramWeight > 0
WeightsBelowOne(lambdas) == lambdas[1] + lambdas[2] < lambdas[3]

\* C8: for a non-empty corpus and weights >= 0 with zerogramWeight > 0,
\* get_log_prob_interp never faults and yields a strictly positive mixture
\* for every pair; when B[prev][word] * bigramWeight is zero the bigram term
\* is exactly zero and no division is performed, and whenever the division
\* is performed the conditioning count is nonzero.  A sentence holding an
\* unseen token therefore scores a finite log-probability.
C8_InterpNeverFaults ==
    /\ (/\ result.op = "get_log_prob_interp"
        /\ Len(sentences) > 0
        /\ WeightsBelowOne(result.lambdas))
         => /\ result.status = "ok"
            /\ result.num > 0
            /\ result.den > 0
            /\ BigramCount(result.prev_word, result.word) * result.lambdas[1] = 0
                 => (~result.divided /\ result.bterm[1] = 0)
            /\ result.divided
                 => /\ result.u_counts # 0
                    /\ result.u_counts =
                         IF result.prev_word = START THEN start_count
                         ELSE CounterGet(unigram_counts, result.prev_word)
    /\ (/\ result.op = "get_sent_log_prob_interp"
        /\ Len(sentences) > 0
        /\ WeightsBelowOne(result.lambdas))
         => /\ result.status = "ok"
            /\ result.num > 0

\* C8 witness: an interpolated call with zerogramWeight > 0 and a positive
\* bigram weight returned for a prev never seen in training.
C8_Witness ==
    /\ result.op = "get_log_prob_interp"
    /\ Len(sentences) > 0
    /\ WeightsBelowOne(result.lambdas)
    /\ result.lambdas[1] > 0
    /\ result.prev_word # START
    /\ result.prev_word \notin DOMAIN unigram_counts
    /\ result.status = "ok"

\* C9 as stated: the mixture is zero (the log undefined) only when the
\* weights sum to 1 and the tables and the vocabulary are empty; for a
\* non-empty vocabulary it is strictly positive for every pair.
C9_MixtureZeroOnlyWhenEmpty ==
    result.op = "get_log_prob_interp"
      => /\ result.status = "ValueError"
              => /\ WeightsSumToOne(result.lambdas)
                 /\ VocabularySize = 0
         /\ VocabularySize > 0
              => (result.status = "ok" /\ result.num > 0)

\* C9 amended: for a non-empty vocabulary the mixture is zero exactly when
\* zerogramWeight = 0, B[prev][word] * bigramWeight = 0 and
\* U[word] * unigramWeight = 0, and strictly positive otherwise; for the
\* empty tables the call raises ZeroDivisionError.
C9_MixtureZeroIffAllTermsZero ==
    result.op = "get_log_prob_interp"
      => /\ VocabularySize > 0
              => /\ result.status \in {"ok", "ValueError"}
                 /\ result.status = "ValueError"
                      <=> /\ WeightsSumToOne(result.lambdas)
                          /\ BigramCount(result.prev_word, result.word)
                               * result.lambdas[1] = 0
                          /\ CounterGet(unigram_counts, result.word)
                               * result.lambdas[2] = 0
                 /\ result.status = "ok" => result.num > 0
         /\ VocabularySize = 0 => result.status = "ZeroDivisionError"

\* C9 witness: with weights summing to 1 the mixture of an unseen pair is
\* zero although the vocabulary is not empty.
C9_Witness ==
    /\ result.op = "get_log_prob_interp"
    /\ VocabularySize > 0
    /\ WeightsSumToOne(result.lambdas)
    /\ result.status = "ValueError"

RECURSIVE Gcd(_, _)
Gcd(a, b) == IF b = 0 THEN a ELSE Gcd(b, a % b)

\* A fraction <<numerator, denominator>> in lowest terms.
Reduced(q) == <<q[1] \div Gcd(q[1], q[2]), q[2] \div Gcd(q[1], q[2])>>

RECURSIVE TokensWithEnd(_, _)
TokensWithEnd(test_set, n) ==
    IF n = 0 THEN 0 ELSE TokensWithEnd(test_set, n - 1) + Len(test_set[n]) + 1

\* The product of the sentence scores of test_set, <<numerator, denominator>>.
RECURSIVE ScoreProduct(_, _, _, _)
ScoreProduct(test_set, n, fn, parameter) ==
    IF n = 0 THEN <<1, 1>>
    ELSE LET rest == ScoreProduct(test_set, n - 1, fn, parameter)
             r == smoothing_function(fn, test_set[n], unigram_counts,
                                     bigram_counts, start_count, token_count,
                                     parameter)
         IN  <<rest[1] * r.num, rest[2] * r.den>>

ExampleTraining == << <<"a", "b">>, <<"a", "c">> >>
ExampleTest == << <<"a", "b">> >>

\* The Add-k quotient of a pair on the current tables at k = 1.
AddkAtOne(prev_word, word) ==
    addk_quotient(prev_word, word, unigram_counts, bigram_counts, <<1, 1>>)

\* C10: calculate_perplexity returns exp(-L / T) with L the sum of the
\* sentence scores and T the sum of length + 1 over the test sentences, which
\* is the number of pairs scored; for training [["a","b"],["a","c"]], test
\* [["a","b"]] and Add-k with k = 1, |V| = 4, T = 3, the pair probabilities
\* are 3/4, 2/6, 2/5 and the perplexity is the cube root of 10.
C10_Perplexity ==
    result.op = "calculate_perplexity"
      => /\ result.root = TokensWithEnd(result.test_set, Len(result.test_set))
              \/ result.status # "ok"
         /\ result.status = "ok"
              => /\ result.npairs = result.root
                 /\ LET L == ScoreProduct(result.test_set, Len(result.test_set),
                                          result.fn, result.parameter)
                    IN  /\ Reduced(<<result.pnum, result.pden>>)
                             = Reduced(<<L[2], L[1]>>)
                        /\ result.pnum > 0 /\ result.pden > 0
         /\ (/\ sentences = ExampleTraining
             /\ result.test_set = ExampleTest
             /\ result.fn = "addk"
             /\ result.parameter = <<1, 1>>)
              => /\ VocabularySize = 4
                 /\ result.status = "ok"
                 /\ result.root = 3
                 /\ AddkAtOne(START, "a") = <<3, 4>>
                 /\ AddkAtOne("a", "b") = <<2, 6>>
                 /\ AddkAtOne("b", END) = <<2, 5>>
                 /\ result.pnum = 10 * result.pden

\* C10 witness: the perplexity of the example has been computed.
C10_Witness ==
    /\ result.op = "calculate_perplexity"
    /\ sentences = ExampleTraining
    /\ result.test_set = ExampleTest
    /\ result.fn = "addk"
    /\ result.parameter = <<1, 1>>
    /\ result.status = "ok"

\* The training corpus without its n-th sentence.
WithoutSentence(n) ==
    [i \in 1..(Len(sentences) - 1) |->
        IF i < n THEN sentences[i] ELSE sentences[i + 1]]

\* The tokens a table of this corpus can mention, and the two markers.
TableTokens == TrainingTokens \cup {START, END}

\* C11: the empty sentence converts to [START, END]; get_counts on the empty
\* corpus returns empty tables with StartCount = 0 and TokenCount = 0; an
\* empty sentence of the corpus adds exactly one to StartCount, to
\* UnigramCounts[END] (and so to TokenCount) and to BigramCounts[START][END],
\* and nothing else, compared with the corpus without it; every pair or
\* sentence scored against the tables of the empty corpus ends in an error
\* (a division by zero), not in a value.
C11_EmptyInput ==
    /\ convert_sentence(<<>>) = <<START, END>>
    /\ result.op = "get_counts" =>
          /\ sentences = <<>> =>
                /\ unigram_counts = EmptyCounter
                /\ bigram_counts = EmptyCounter
                /\ start_count = 0
                /\ token_count = 0
          /\ \A n \in 1..Len(sentences) :
                sentences[n] = <<>> =>
                   \E r \in { get_counts(WithoutSentence(n)) } :
                      /\ start_count = r.start_count + 1
                      /\ token_count = r.token_count + 1
                      /\ \A w \in TableTokens :
                            CounterGet(unigram_counts, w) =
                               CounterGet(r.unigram_counts, w)
                                  + (IF w = END THEN 1 ELSE 0)
                      /\ \A x \in TableTokens : \A y \in TableTokens :
                            BigramCount(x, y) =
                               (IF x \in DOMAIN r.bigram_counts
                                THEN CounterGet(r.bigram_counts[x], y) ELSE 0)
                                  + (IF x = START /\ y = END THEN 1 ELSE 0)
    /\ /\ sentences = <<>>
       /\ result.op \in {"get_log_prob_addk", "get_log_prob_interp",
                         "get_sent_log_prob_addk", "get_sent_log_prob_interp"}
       => result.status = "ZeroDivisionError"

\* C11 witness: get_counts has returned for a corpus that holds an empty
\* sentence next to a sentence with tokens.
C11_Witness ==
    /\ result.op = "get_counts"
    /\ \E n \in 1..Len(sentences) : sentences[n] = <<>>
    /\ \E n \in 1..Len(sentences) : Len(sentences[n]) > 0
    /\ BigramCount(START, END) >= 1
    /\ start_count = Len(sentences)

\* No raw token of the training corpus case-folds to END.
NoRawEnd ==
    \A n \in 1..Len(sentences) : \A i \in 1..Len(sentences[n]) :
        Lower(sentences[n][i]) # END

\* START is a successor in some row of BigramCounts.
StartIsSuccessor ==
    \E x \in DOMAIN bigram_counts : START \in DOMAIN bigram_counts[x]

\* END is a row key of BigramCounts with a successor.
EndIsConditioning ==
    END \in DOMAIN bigram_counts /\ DOMAIN bigram_counts[END] # {}

\* C12 as stated: for every corpus passed to get_counts START is never a key
\* of UnigramCounts and never a successor in BigramCounts, and END is never a
\* row key with a successor in BigramCounts.
C12_MarkersOnlyAtBoundaries ==
    pc # "init" =>
        /\ START \notin DOMAIN unigram_counts
        /\ ~StartIsSuccessor
        /\ ~EndIsConditioning

\* C12 amended: in the tables of get_counts, and after any later call, START
\* is a key of UnigramCounts, and a successor in BigramCounts, exactly when
\* some raw token of the corpus case-folds to START, and END is a row key
\* with a successor exactly when some raw token case-folds to END; so for a
\* corpus in which no raw token case-folds to a marker the markers occur
\* only as sentence boundaries.
C12_MarkersOnlyAtBoundariesNoRawMarkers ==
    pc # "init" =>
        /\ START \in DOMAIN unigram_counts <=> ~NoRawStart
        /\ StartIsSuccessor <=> ~NoRawStart
        /\ EndIsConditioning <=> ~NoRawEnd
        /\ (NoRawStart /\ NoRawEnd) =>
              /\ START \notin DOMAIN unigram_counts
              /\ ~StartIsSuccessor
              /\ ~EndIsConditioning

\* C12 witness: the tables of a corpus of two sentences with tokens, none of
\* them marker-like, after a later call has read the row of END.
C12_Witness ==
    /\ pc = "returned"
    /\ result.op = "get_log_prob_addk"
    /\ result.prev_word = END
    /\ NoRawStart
    /\ NoRawEnd
    /\ Len(sentences) = 2
    /\ \A n \in 1..Len(sentences) : Len(sentences[n]) > 0
    /\ END \in DOMAIN bigram_counts

\* The row sum of BigramCounts[t]; a missing row sums to zero.
RowSum(t) ==
    IF t \in DOMAIN bigram_counts THEN CounterTotal(bigram_counts[t]) ELSE 0

\* The conditioning count of t: StartCount for START, else UnigramCounts[t].
ConditioningCount(t) ==
    IF t = START THEN start_count ELSE CounterGet(unigram_counts, t)

\* C13: for a corpus in which no raw token case-folds to START or END, the
\* row sum of BigramCounts[START] equals StartCount, which equals
\* UnigramCounts[END] (and is positive for a non-empty corpus); for every
\* other token t but END the row sum of BigramCounts[t] equals
\* UnigramCounts[t]; END has no successors; so every BigramCounts[prev][word]
\* is at most the conditioning count get_log_prob_interp divides by, and the
\* total generate_sentence normalizes the row of its current word by equals
\* that conditioning count.
C13_CountConsistency ==
    (pc # "init" /\ NoRawStart /\ NoRawEnd) =>
        /\ RowSum(START) = start_count
        /\ start_count = CounterGet(unigram_counts, END)
        /\ Len(sentences) > 0 => start_count > 0
        /\ \A t \in (TableTokens \cup AllTokens) \ {START, END} :
               RowSum(t) = CounterGet(unigram_counts, t)
        /\ RowSum(END) = 0
        /\ ~EndIsConditioning
        /\ \A prev \in (TableTokens \cup AllTokens) \ {END} :
               \A word \in TableTokens \cup AllTokens :
                   BigramCount(prev, word) <= ConditioningCount(prev)
        /\ result.op = "get_log_prob_interp" =>
               /\ result.u_counts = ConditioningCount(result.prev_word)
               /\ BigramCount(result.prev_word, result.word) <= result.u_counts
        /\ (pc = "gen" /\ current_word # END) =>
               total_counts(DefaultdictTouch(bigram_counts,
                                             current_word)[current_word])
                  = ConditioningCount(current_word)

\* C13 witness: generate_sentence stands at a word that the corpus, without
\* marker-like raw tokens, holds twice, with two different successors.
C13_Witness ==
    /\ pc = "gen"
    /\ NoRawStart
    /\ NoRawEnd
    /\ current_word \notin {START, END}
    /\ CounterGet(unigram_counts, current_word) = 2
    /\ current_word \in DOMAIN bigram_counts
    /\ Cardinality(DOMAIN bigram_counts[current_word]) = 2

====
